---- MODULE Spec2Model ----
(***************************************************************************)
(* NASDAQ-futures nickname bot (america.py): the provider adapters, the    *)
(* fallback chain fetch_price_change, the per-guild coroutine update_guild *)
(* and the scheduler updater_loop, as a state machine.                     *)
(***************************************************************************)
EXTENDS Integers, Sequences, FiniteSets, TLC

(***************************************************************************)
(* Values.  A JSON / CSV field is null (missing key), a non-numeric string *)
(* or a number.  A percentage is an exact rational <<n, d>>, d > 0, in     *)
(* lowest terms.                                                           *)
(***************************************************************************)
JNull == [t |-> "null", v |-> 0]
JStr == [t |-> "str", v |-> 0]
JNum(n) == [t |-> "num", v |-> n]

\* The numbers a provider may report in a price or close field.
Nums == {0, 100, 102}
\* The percentages Yahoo's regularMarketChangePercent may carry.
Pcts == {-2, 0, 2}
Fields == {JNull, JStr} \cup {JNum(n) : n \in Nums}
PctFields == {JNull, JStr} \cup {JNum(n) : n \in Pcts}

Abs(n) == IF n < 0 THEN -n ELSE n

RECURSIVE Gcd(_, _)
Gcd(a, b) == IF b = 0 THEN a ELSE Gcd(b, a % b)

\* n / d as a rational in lowest terms with a positive denominator (d # 0).
Rat(n, d) ==
    LET g == Gcd(Abs(n), Abs(d))
        s == IF d < 0 THEN -1 ELSE 1
    IN  <<(s * n) \div g, (s * d) \div g>>

\* ((c - pc) / pc) * 100.0
PctChange(c, pc) == Rat((c - pc) * 100, pc)

(***************************************************************************)
(* What an adapter call gives back to fetch_price_change: a (price,        *)
(* change) tuple, None, or an exception that leaves the adapter.  reqs is   *)
(* the number of session.get calls made, log the adapter's log lines.      *)
(***************************************************************************)
Got(p, chg, n, lg) ==
    [kind |-> "quote", price |-> p, chg |-> chg, exc |-> "", reqs |-> n, log |-> lg]
NoneAfter(n, lg) ==
    [kind |-> "none", price |-> 0, chg |-> <<0, 1>>, exc |-> "", reqs |-> n, log |-> lg]
RaisedAfter(e, n, lg) ==
    [kind |-> "raise", price |-> 0, chg |-> <<0, 1>>, exc |-> e, reqs |-> n, log |-> lg]

(***************************************************************************)
(* HTTP exchanges.  net = "error" is an aiohttp.ClientError or an          *)
(* asyncio.TimeoutError raised by session.get or while reading the body.   *)
(* json = "decode" is a body json() cannot decode (ValueError), json =     *)
(* "ctype" a body with the wrong content type (ContentTypeError, which is  *)
(* a ClientError).                                                         *)
(***************************************************************************)
NetError == [net |-> "error", status |-> 0, json |-> "", body |-> <<>>]
Http(s) == [net |-> "ok", status |-> s, json |-> "", body |-> <<>>]
BadJson(how) == [net |-> "ok", status |-> 200, json |-> how, body |-> <<>>]
Json(b) == [net |-> "ok", status |-> 200, json |-> "ok", body |-> b]

ErrorStatuses == {429, 500}
Failing == {NetError, BadJson("decode"), BadJson("ctype")} \cup {Http(s) : s \in ErrorStatuses}

\* float(v) raises for a non-numeric string (and for null, where reached).
FloatRaises(v) == v.t # "num"

\* _last_non_null(vals): the last entry that is not None, or None.
RECURSIVE last_non_null(_)
last_non_null(vals) ==
    IF vals = <<>> THEN JNull
    ELSE IF vals[Len(vals)] # JNull THEN vals[Len(vals)]
    ELSE last_non_null(SubSeq(vals, 1, Len(vals) - 1))

\* -------- Provider A: Finnhub --------
FinnhubResponses ==
    Failing \cup {Json([c |-> c, pc |-> pc]) : c \in Fields, pc \in Fields}

finnhub_quote(token, r) ==
    IF ~token THEN NoneAfter(0, <<>>)
    ELSE IF r.net = "error" THEN NoneAfter(1, <<"error">>)
    ELSE IF r.status # 200 THEN NoneAfter(1, <<"HTTP">>)
    ELSE IF r.json = "ctype" THEN NoneAfter(1, <<"error">>)
    ELSE IF r.json = "decode" THEN RaisedAfter("ValueError", 1, <<>>)
    ELSE LET c == r.body.c
             pc == r.body.pc
         IN  IF c = JNull \/ pc = JNull \/ pc = JNum(0)
             THEN NoneAfter(1, <<"Missing fields">>)
             ELSE IF FloatRaises(c) \/ FloatRaises(pc)
             THEN RaisedAfter("ValueError", 1, <<>>)
             ELSE Got(c.v, PctChange(c.v, pc.v), 1, <<"OK">>)

\* -------- Provider B: Yahoo (quote -> chart), two mirror hosts --------
YahooQuoteResponses ==
    Failing \cup {Json(<<>>)}
        \cup {Json(<<[p |-> p, chg |-> chg]>>) : p \in Fields, chg \in PctFields}

\* The loop "for url in urls" from the i-th url on; rs[i] answers the i-th url.
RECURSIVE yahoo_quote_from(_, _, _)
yahoo_quote_from(rs, i, lg) ==
    IF i > Len(rs) THEN NoneAfter(Len(rs), lg)
    ELSE LET r == rs[i] IN
        IF r.net = "error" THEN yahoo_quote_from(rs, i + 1, Append(lg, "error"))
        ELSE IF r.status = 429 THEN NoneAfter(i, Append(lg, "429"))
        ELSE IF r.status # 200 THEN yahoo_quote_from(rs, i + 1, Append(lg, "HTTP"))
        ELSE IF r.json = "ctype" THEN yahoo_quote_from(rs, i + 1, Append(lg, "error"))
        ELSE IF r.json = "decode" THEN RaisedAfter("ValueError", i, lg)
        ELSE IF r.body = <<>> THEN yahoo_quote_from(rs, i + 1, Append(lg, "No results"))
        ELSE LET p == r.body[1].p
                 chg == r.body[1].chg
             IN  IF p = JNull \/ chg = JNull
                 THEN yahoo_quote_from(rs, i + 1, Append(lg, "Missing fields"))
                 ELSE IF FloatRaises(p) \/ FloatRaises(chg)
                 THEN RaisedAfter("ValueError", i, lg)
                 ELSE Got(p.v, Rat(chg.v, 1), i, Append(lg, "OK"))

\* Mutant of yahoo_quote: only the first host is requested.
yahoo_quote_first_host_only(rs) == yahoo_quote_from(<<rs[1]>>, 1, <<>>)

yahoo_quote(rs) == yahoo_quote_from(rs, 1, <<>>)

MaxCloses == 2
CloseVals == {JNull, JNum(100), JNum(102)}
CloseSeqs == UNION {[1..n -> CloseVals] : n \in 0..MaxCloses}
YahooChartResponses ==
    Failing \cup {Json(<<>>)}
        \cup {Json(<<[closes |-> cs, previousClose |-> pc]>>) : cs \in CloseSeqs, pc \in Fields}

RECURSIVE yahoo_chart_from(_, _, _)
yahoo_chart_from(rs, i, lg) ==
    IF i > Len(rs) THEN NoneAfter(Len(rs), lg)
    ELSE LET r == rs[i] IN
        IF r.net = "error" THEN yahoo_chart_from(rs, i + 1, Append(lg, "error"))
        ELSE IF r.status = 429 THEN NoneAfter(i, Append(lg, "429"))
        ELSE IF r.status # 200 THEN yahoo_chart_from(rs, i + 1, Append(lg, "HTTP"))
        ELSE IF r.json = "ctype" THEN yahoo_chart_from(rs, i + 1, Append(lg, "error"))
        ELSE IF r.json = "decode" THEN RaisedAfter("ValueError", i, lg)
        ELSE IF r.body = <<>> THEN yahoo_chart_from(rs, i + 1, Append(lg, "No result"))
        ELSE LET last == last_non_null(r.body[1].closes)
                 prev_close == r.body[1].previousClose
             IN  IF last = JNull \/ prev_close = JNull
                 THEN yahoo_chart_from(rs, i + 1, Append(lg, "Missing last/previousClose"))
                 ELSE IF FloatRaises(last) \/ FloatRaises(prev_close)
                 THEN RaisedAfter("ValueError", i, lg)
                 ELSE IF prev_close.v = 0
                 THEN RaisedAfter("ZeroDivisionError", i, lg)
                 ELSE Got(last.v, PctChange(last.v, prev_close.v), i, Append(lg, "OK"))

\* Mutant of yahoo_chart: a 429 is handled like any other status.
yahoo_chart_429_as_other_status(rs) ==
    yahoo_chart_from([i \in 1..Len(rs) |-> IF rs[i].status = 429 THEN Http(500) ELSE rs[i]],
                     1, <<>>)

yahoo_chart(rs) == yahoo_chart_from(rs, 1, <<>>)

\* Both mirror hosts, in the order of the urls list.
Mirrors(S) == {<<a, b>> : a \in S, b \in S}

\* -------- Provider C: Stooq (daily CSV) --------
\* A CSV line is the sequence of its comma-separated fields; <<>> is a line
\* that is blank after strip().
MaxLines == 4
Header == <<JStr, JStr, JStr, JStr, JStr, JStr>>
Row(close) == <<JStr, JNum(100), JNum(102), JNum(100), close, JNum(0)>>
ShortLine == <<JStr>>
BlankLine == <<>>
CsvLines == {Header, ShortLine, BlankLine} \cup {Row(c) : c \in Fields \ {JNull}}
CsvTexts == UNION {[1..n -> CsvLines] : n \in 0..MaxLines}
StooqResponses ==
    {NetError} \cup {Http(s) : s \in ErrorStatuses} \cup {Json(t) : t \in CsvTexts}

\* [ln.strip() for ln in text.splitlines() if ln.strip()]
RECURSIVE NonBlank(_)
NonBlank(text) ==
    IF text = <<>> THEN <<>>
    ELSE IF Head(text) = BlankLine THEN NonBlank(Tail(text))
    ELSE <<Head(text)>> \o NonBlank(Tail(text))

\* Mutant of stooq_last_and_change: the most recent row is not looked at.
stooq_without_last_row(r) ==
    LET older == [r EXCEPT !.body = SubSeq(r.body, 1, Len(r.body) - 1)]
        lines == NonBlank(older.body)
    IN  IF r.net = "error" THEN NoneAfter(1, <<"error">>)
        ELSE IF r.status # 200 THEN NoneAfter(1, <<"HTTP">>)
        ELSE IF Len(lines) < 3 THEN NoneAfter(1, <<"CSV too short">>)
        ELSE IF Len(lines[Len(lines)]) < 5 \/ Len(lines[Len(lines) - 1]) < 5
        THEN NoneAfter(1, <<"CSV missing fields">>)
        ELSE IF FloatRaises(lines[Len(lines)][5]) \/ FloatRaises(lines[Len(lines) - 1][5])
        THEN RaisedAfter("ValueError", 1, <<>>)
        ELSE IF lines[Len(lines) - 1][5].v = 0
        THEN RaisedAfter("ZeroDivisionError", 1, <<>>)
        ELSE Got(lines[Len(lines)][5].v,
                 PctChange(lines[Len(lines)][5].v, lines[Len(lines) - 1][5].v), 1, <<"OK">>)

stooq_last_and_change(r) ==
    IF r.net = "error" THEN NoneAfter(1, <<"error">>)
    ELSE IF r.status # 200 THEN NoneAfter(1, <<"HTTP">>)
    ELSE LET lines == NonBlank(r.body) IN
        IF Len(lines) < 3 THEN NoneAfter(1, <<"CSV too short">>)
        ELSE LET last == lines[Len(lines)]
                 prev == lines[Len(lines) - 1]
             IN  IF Len(last) < 5 \/ Len(prev) < 5
                 THEN NoneAfter(1, <<"CSV missing fields">>)
                 ELSE IF FloatRaises(last[5]) \/ FloatRaises(prev[5])
                 THEN RaisedAfter("ValueError", 1, <<>>)
                 ELSE IF prev[5].v = 0
                 THEN RaisedAfter("ZeroDivisionError", 1, <<>>)
                 ELSE Got(last[5].v, PctChange(last[5].v, prev[5].v), 1, <<"OK">>)

(***************************************************************************)
(* fetch_price_change: the fallback chain.  A call is at a stage: the      *)
(* jitter sleep, one of the four adapters (named by the source string the  *)
(* chain returns for it), "returned" or "raised".                          *)
(***************************************************************************)
Sources == {"finnhub", "yahoo-quote", "yahoo-chart", "stooq"}

\* The adapter awaited after the jitter sleep.
FirstStage(token) == IF token THEN "finnhub" ELSE "yahoo-quote"

\* Mutant of NextStage: the chart endpoint is tried before the quote endpoint.
NextStage_chart_first(src) ==
    CASE src = "finnhub" -> "yahoo-chart"
      [] src = "yahoo-chart" -> "yahoo-quote"
      [] src = "yahoo-quote" -> "stooq"
      [] OTHER -> ""

\* The adapter awaited when adapter src has returned None; "" after the last.
NextStage(src) ==
    CASE src = "finnhub" -> "yahoo-quote"
      [] src = "yahoo-quote" -> "yahoo-chart"
      [] src = "yahoo-chart" -> "stooq"
      [] OTHER -> ""

NoQuote == [price |-> 0, chg |-> <<0, 1>>, source |-> ""]

\* Where the chain stands once adapter src has given back a.
AfterAdapter(src, a) ==
    IF a.kind = "quote"
    THEN [stage |-> "returned", exc |-> "",
          quote |-> [price |-> a.price, chg |-> a.chg, source |-> src]]
    ELSE IF a.kind = "raise"
    THEN [stage |-> "raised", exc |-> a.exc, quote |-> NoQuote]
    ELSE IF NextStage(src) = ""
    THEN [stage |-> "raised", exc |-> "RuntimeError", quote |-> NoQuote]
    ELSE [stage |-> NextStage(src), exc |-> "", quote |-> NoQuote]

(***************************************************************************)
(* fetch_price_change as a function of what each adapter gives back        *)
(* (w[src] for adapter src): the chain run from adapter src on.            *)
(***************************************************************************)
RECURSIVE ChainFrom(_, _)
ChainFrom(src, w) ==
    LET nxt == AfterAdapter(src, w[src])
    IN  IF nxt.stage \in Sources THEN ChainFrom(nxt.stage, w) ELSE nxt

fetch_price_change(token, w) == ChainFrom(FirstStage(token), w)

(***************************************************************************)
(* Presentation: the nickname and the presence text.  Texts are sequences  *)
(* of characters; "green" and "red" stand for the two circle emoji, one    *)
(* character each.                                                         *)
(***************************************************************************)
NickMax == 32
DigitChars == <<"0", "1", "2", "3", "4", "5", "6", "7", "8", "9">>

RECURSIVE Digits(_)
Digits(n) ==
    IF n < 10 THEN <<DigitChars[n + 1]>>
    ELSE Digits(n \div 10) \o <<DigitChars[(n % 10) + 1]>>

\* The "," format option: groups of three digits from the right.
RECURSIVE Grouped(_)
Grouped(ds) ==
    IF Len(ds) <= 3 THEN ds
    ELSE Grouped(SubSeq(ds, 1, Len(ds) - 3)) \o <<",">> \o SubSeq(ds, Len(ds) - 2, Len(ds))

\* f"{price:,.2f}" for a whole-numbered price given by its sign and the
\* decimal digits of its magnitude.
MoneyOf(neg, ds) ==
    (IF neg THEN <<"-">> ELSE <<>>) \o Grouped(ds) \o <<".", "0", "0">>

\* f"{price:,.2f}" for a whole-numbered price.
Money(price) == MoneyOf(price < 0, Digits(Abs(price)))

Emoji(change_pct) == IF change_pct[1] >= 0 THEN "green" ELSE "red"

\* Mutant of Truncated: the nickname is sent as rendered.
Truncated_not(nickname) == nickname

\* if len(nickname) > 32: nickname = nickname[:32]
Truncated(nickname) ==
    IF Len(nickname) > NickMax THEN SubSeq(nickname, 1, NickMax) ELSE nickname

\* nickname = f"${price:,.2f} {emoji}", then the truncation
NicknameOf(neg, ds, change_pct) ==
    Truncated(<<"$">> \o MoneyOf(neg, ds) \o <<" ", Emoji(change_pct)>>)

Nickname(price, change_pct) == NicknameOf(price < 0, Digits(Abs(price)), change_pct)

\* discord.Game(name=f"NASDAQ Futures 1D {change_pct:+.2f}%"), the number kept exact
StatusText(change_pct) == [name |-> "NASDAQ Futures 1D", pct |-> change_pct]
ErrorText == [name |-> "NASDAQ Futures: error", pct |-> <<0, 1>>]
NoActivity == [name |-> "", pct |-> <<0, 1>>]
NoNick == <<>>

\* can_edit_nick = perms.change_nickname or perms.manage_nicknames
CanEditNick(perms) == perms.change_nickname \/ perms.manage_nicknames
Permissions == [change_nickname : BOOLEAN, manage_nicknames : BOOLEAN]

(***************************************************************************)
(* Startup: the module body, lines 12-24 and 310-311.  The text handed to  *)
(* int() on line 14 is the env var INTERVAL_SECONDS or the default "120".  *)
(***************************************************************************)
IntervalTexts == {"120", "abc"}

\* int(s) raises ValueError unless s is a decimal integer.
IntRaises(s) == s \notin {"120"}

\* How the import of the module ends: line 14 raises before the TOKEN check
\* of lines 19-20 is reached; otherwise client.run(TOKEN) is entered.
ImportModule(token, interval) ==
    IF IntRaises(interval) THEN "ValueError"
    ELSE IF ~token THEN "SystemExit"
    ELSE "running"

(***************************************************************************)
(* State.                                                                  *)
(***************************************************************************)
NGuilds == 2
Guilds == 1..NGuilds

VARIABLES
    FINNHUB_TOKEN,  \* whether the env var FINNHUB_TOKEN is set
    GUILD_ID,       \* the configured guild id, 0 for None
    guilds,         \* client.guilds: the guilds the session is in
    closed,         \* client.is_closed()
    nick,           \* nick[g]: the bot member's nickname in guild g
    presence,       \* the activity last accepted by change_presence
    http_session,   \* _http_session: "None" or "open"
    update_task,    \* update_task: "None", "running" or "done"
    loop,           \* where the updater_loop coroutine stands
    tasks,          \* the update_guild coroutines that exist, oldest first
    call,           \* one call of fetch_price_change, followed step by step
    TOKEN,          \* whether the env var TOKEN is set (and not empty)
    INTERVAL_SECONDS,   \* the text int() is given at import: the env var or "120"
    process,        \* "running", or the exception that ended the process
    label           \* one rendering of the nickname, followed step by step

startVars == <<TOKEN, INTERVAL_SECONDS, process>>
botVars == <<GUILD_ID, guilds, closed, nick, presence, http_session, update_task, loop, tasks,
             startVars, label>>
vars == <<FINNHUB_TOKEN, GUILD_ID, guilds, closed, nick, presence, http_session,
          update_task, loop, tasks, call, startVars, label>>

(***************************************************************************)
(* One call of fetch_price_change against arbitrary provider answers.      *)
(* call.invoked lists the adapters awaited so far; for the most recent one *)
(* call.asked tells, url by url (reached or not), whether the request ends *)
(* in a transport error and with which status, and call.last is what the   *)
(* adapter gave back; call.text is the CSV text Stooq answered with.       *)
(***************************************************************************)
\* No nickname is being rendered.
NoLabel == [neg |-> FALSE, digits |-> <<>>, chg |-> <<0, 1>>, nickname |-> <<>>, done |-> FALSE]

NoCall == [stage |-> "idle", exc |-> "", quote |-> NoQuote, invoked |-> <<>>,
           asked |-> <<>>, text |-> <<>>, last |-> NoneAfter(0, <<>>)]

Entered == [NoCall EXCEPT !.stage = "jitter"]

\* await asyncio.sleep(random.uniform(0.0, 0.8))
Jitter ==
    /\ call.stage = "jitter"
    /\ call' = [call EXCEPT !.stage = FirstStage(FINNHUB_TOKEN)]
    /\ UNCHANGED <<FINNHUB_TOKEN, botVars>>

\* The call goes on with what adapter src gave back.
Awaited(src, rs, a) ==
    LET nxt == AfterAdapter(src, a)
    IN  call' = [stage |-> nxt.stage, exc |-> nxt.exc, quote |-> nxt.quote,
                 invoked |-> Append(call.invoked, [src |-> src, kind |-> a.kind, reqs |-> a.reqs]),
                 asked |-> [i \in 1..Len(rs) |-> [net |-> rs[i].net, status |-> rs[i].status]],
                 text |-> IF src = "stooq" THEN rs[1].body ELSE <<>>,
                 last |-> a]

CallFinnhub ==
    /\ call.stage = "finnhub"
    /\ \E r \in FinnhubResponses : Awaited("finnhub", <<r>>, finnhub_quote(FINNHUB_TOKEN, r))
    /\ UNCHANGED <<FINNHUB_TOKEN, botVars>>

CallYahooQuote ==
    /\ call.stage = "yahoo-quote"
    /\ \E rs \in Mirrors(YahooQuoteResponses) : Awaited("yahoo-quote", rs, yahoo_quote(rs))
    /\ UNCHANGED <<FINNHUB_TOKEN, botVars>>

CallYahooChart ==
    /\ call.stage = "yahoo-chart"
    /\ \E rs \in Mirrors(YahooChartResponses) : Awaited("yahoo-chart", rs, yahoo_chart(rs))
    /\ UNCHANGED <<FINNHUB_TOKEN, botVars>>

CallStooq ==
    /\ call.stage = "stooq"
    /\ \E r \in StooqResponses : Awaited("stooq", <<r>>, stooq_last_and_change(r))
    /\ UNCHANGED <<FINNHUB_TOKEN, botVars>>

\* The bot itself is not started.
BotIdle ==
    /\ GUILD_ID = 0
    /\ guilds = {}
    /\ closed = FALSE
    /\ nick = [g \in Guilds |-> NoNick]
    /\ presence = NoActivity
    /\ http_session = "None"
    /\ update_task = "None"
    /\ loop = "none"
    /\ tasks = <<>>
    /\ TOKEN = TRUE
    /\ INTERVAL_SECONDS = "120"
    /\ process = "running"

FetchInit ==
    /\ FINNHUB_TOKEN \in BOOLEAN
    /\ call = Entered
    /\ label = NoLabel
    /\ BotIdle

FetchNext ==
    \/ Jitter
    \/ CallFinnhub
    \/ CallYahooQuote
    \/ CallYahooChart
    \/ CallStooq

SpecFetch == FetchInit /\ [][FetchNext]_vars

\* Every awaited sleep and request ends: asyncio.sleep returns, and every
\* session.get carries ClientTimeout(total=10).
FairSpecFetch == SpecFetch /\ WF_vars(FetchNext)

(***************************************************************************)
(* One rendering of the nickname (update_guild, lines 251-254) for prices  *)
(* of every size: 10^(n-1) and 10^n - 1 for each number n of digits, both  *)
(* signs, and changes below, at and above zero.                            *)
(***************************************************************************)
MaxDigits == 22
PowerOfTen(n) == [i \in 1..n |-> IF i = 1 THEN "1" ELSE "0"]
AllNines(n) == [i \in 1..n |-> "9"]
DigitSeqs == {<<"0">>} \cup {PowerOfTen(n) : n \in 1..MaxDigits}
                 \cup {AllNines(n) : n \in 1..MaxDigits}
Changes == {<<-2, 1>>, <<-1, 200>>, <<0, 1>>, <<2, 1>>}

FormatInit ==
    /\ FINNHUB_TOKEN = FALSE
    /\ call = NoCall
    /\ label \in [neg : BOOLEAN, digits : DigitSeqs, chg : Changes,
                   nickname : {<<>>}, done : {FALSE}]
    /\ BotIdle

\* emoji, nickname and the truncation, lines 251-254
RenderNickname ==
    /\ ~label.done
    /\ label' = [label EXCEPT !.nickname = NicknameOf(label.neg, label.digits, label.chg),
                              !.done = TRUE]
    /\ UNCHANGED <<FINNHUB_TOKEN, GUILD_ID, guilds, closed, nick, presence, http_session,
                   update_task, loop, tasks, call, startVars>>

SpecFormat == FormatInit /\ [][RenderNickname]_vars

(***************************************************************************)
(* The bot.  While it runs the providers answer from these sets: a         *)
(* rate-limit status everywhere, a usable body, and for Yahoo a body that  *)
(* makes the adapter raise.                                                *)
(***************************************************************************)
BotFinnhub == {Http(429), Json([c |-> JNum(102), pc |-> JNum(100)])}
BotYahooQuote == Mirrors({Http(429), BadJson("decode")})
BotYahooChart ==
    Mirrors({Http(429), Json(<<[closes |-> <<JNum(100)>>, previousClose |-> JNum(0)]>>)})
BotStooq == {Http(429), Json(<<Header, Row(JNum(102)), Row(JNum(100))>>)}

\* The ways one call of fetch_price_change may end, with and without a token.
FetchOutcomes ==
    [token \in BOOLEAN |->
        {fetch_price_change(token,
                            [src \in Sources |->
                                CASE src = "finnhub" -> a
                                  [] src = "yahoo-quote" -> b
                                  [] src = "yahoo-chart" -> c
                                  [] OTHER -> d]) :
            a \in {finnhub_quote(token, r) : r \in BotFinnhub},
            b \in {yahoo_quote(rs) : rs \in BotYahooQuote},
            c \in {yahoo_chart(rs) : rs \in BotYahooChart},
            d \in {stooq_last_and_change(r) : r \in BotStooq}}]

Running(t) == t.pc \notin {"done", "failed"}

\* A coroutine update_guild(g): its place (pc), its locals can_edit_nick and
\* quote (price, change_pct, source), the session it handed to
\* fetch_price_change, and which activity it has handed to change_presence
\* (shown: "none", "status" or "error").  A coroutine that has ended has no
\* locals.
NewTask(g) ==
    [guild |-> g, old |-> FALSE, pc |-> "start", can_edit_nick |-> FALSE,
     quote |-> NoQuote, session |-> "None", shown |-> "none"]

Ended(t, how) ==
    [t EXCEPT !.pc = how, !.can_edit_nick = FALSE, !.quote = NoQuote, !.session = "None"]

\* tasks without its i-th entry.
Without(i) == SubSeq(tasks, 1, i - 1) \o SubSeq(tasks, i + 1, Len(tasks))

\* The i-th coroutine goes on as t.  A coroutine that ends while nothing
\* awaits it (an old one) is gone; one that gather awaits stays, ended, until
\* the gather is over.
Becomes(i, t) ==
    tasks' = IF t.old /\ ~Running(t) THEN Without(i) ELSE [tasks EXCEPT ![i] = t]

\* The guilds of S in ascending order.
RECURSIVE Ascending(_)
Ascending(S) ==
    IF S = {} THEN <<>>
    ELSE LET m == CHOOSE x \in S : \A y \in S : x <= y
         IN  <<m>> \o Ascending(S \ {m})

\* Mutant of Targets: the configured guild id is ignored.
Targets_all == Ascending(guilds)

\* targets, as updater_loop computes it
Targets ==
    IF GUILD_ID # 0
    THEN (IF GUILD_ID \in guilds THEN <<GUILD_ID>> ELSE <<>>)
    ELSE Ascending(guilds)

\* -------- update_guild --------
\* me = await get_self_member(guild), the permissions, the session assertion
\* and the entry into fetch_price_change.
EnterGuild(i) ==
    /\ tasks[i].pc = "start"
    /\ \E m \in {"member", "none", "raise"} :
          CASE m = "none" -> Becomes(i, Ended(tasks[i], "done"))
            [] m = "raise" -> Becomes(i, Ended(tasks[i], "failed"))
            [] OTHER ->
                 \E perms \in Permissions :
                    IF http_session = "None"
                    THEN Becomes(i, [tasks[i] EXCEPT !.pc = "presence_err"])
                    ELSE Becomes(i, [tasks[i] EXCEPT !.pc = "fetching",
                                                     !.can_edit_nick = CanEditNick(perms),
                                                     !.session = http_session])
    /\ UNCHANGED <<FINNHUB_TOKEN, GUILD_ID, guilds, closed, nick, presence, http_session,
                   update_task, loop, call, startVars, label>>

\* What update_guild does with the way fetch_price_change ended (o): on a
\* quote it goes on to the nickname edit, or past it without the permission;
\* on an exception to the error presence.
\* Mutant of AfterFetch: the edit is attempted whatever the permissions.
AfterFetch_ignores_capability(t, o) ==
    IF o.stage = "returned"
    THEN [t EXCEPT !.quote = o.quote, !.pc = "edit"]
    ELSE [t EXCEPT !.pc = "presence_err"]

AfterFetch(t, o) ==
    IF o.stage = "returned"
    THEN [t EXCEPT !.quote = o.quote, !.pc = IF t.can_edit_nick THEN "edit" ELSE "presence"]
    ELSE [t EXCEPT !.pc = "presence_err"]

FetchReturns(i) ==
    /\ tasks[i].pc = "fetching"
    /\ \E o \in FetchOutcomes[FINNHUB_TOKEN] : Becomes(i, AfterFetch(tasks[i], o))
    /\ UNCHANGED <<FINNHUB_TOKEN, GUILD_ID, guilds, closed, nick, presence, http_session,
                   update_task, loop, call, startVars, label>>

\* await me.edit(nick=nickname, ...): accepted, Forbidden, another
\* HTTPException, or an exception update_guild does not catch.
EditNick(i) ==
    /\ tasks[i].pc = "edit"
    /\ \E r \in {"ok", "Forbidden", "HTTPException", "raise"} :
          /\ nick' = IF r = "ok"
                     THEN [nick EXCEPT ![tasks[i].guild] =
                               Nickname(tasks[i].quote.price, tasks[i].quote.chg)]
                     ELSE nick
          /\ Becomes(i, IF r = "raise" THEN Ended(tasks[i], "failed")
                        ELSE [tasks[i] EXCEPT !.pc = "presence"])
    /\ UNCHANGED <<FINNHUB_TOKEN, GUILD_ID, guilds, closed, presence, http_session,
                   update_task, loop, call, startVars, label>>

\* await client.change_presence(activity) inside try/except Exception:
\* accepted or not, update_guild returns after it
ChangePresence(i, activity, which) ==
    /\ presence' \in {activity, presence}
    /\ Becomes(i, Ended([tasks[i] EXCEPT !.shown = which], "done"))

SetPresence(i) ==
    /\ tasks[i].pc = "presence"
    /\ ChangePresence(i, StatusText(tasks[i].quote.chg), "status")
    /\ UNCHANGED <<FINNHUB_TOKEN, GUILD_ID, guilds, closed, nick, http_session,
                   update_task, loop, call, startVars, label>>

\* Mutant of FailureActivity: a failed fetch is shown as a change of 0.00%.
FailureActivity_as_flat == StatusText(<<0, 1>>)

\* The activity shown when the quote fetch failed.
FailureActivity == ErrorText

SetErrorPresence(i) ==
    /\ tasks[i].pc = "presence_err"
    /\ ChangePresence(i, FailureActivity, "error")
    /\ UNCHANGED <<FINNHUB_TOKEN, GUILD_ID, guilds, closed, nick, http_session,
                   update_task, loop, call, startVars, label>>

\* -------- updater_loop and on_ready --------
\* Mutant of StartsLoop: every ready event starts an updater_loop.
StartsLoop_on_every_ready == TRUE

\* update_task is None or update_task.done()
StartsLoop == update_task = "None" \/ update_task = "done"

on_ready ==
    /\ process = "running"
    /\ ~closed
    /\ IF StartsLoop
       THEN update_task' = "running" /\ loop' = "waiting"
       ELSE UNCHANGED <<update_task, loop>>
    /\ UNCHANGED <<FINNHUB_TOKEN, GUILD_ID, guilds, closed, nick, presence, http_session,
                   tasks, call, startVars, label>>

\* Mutant of SessionAfterStart: updater_loop creates no session.
SessionAfterStart_not_created == http_session

\* if _http_session is None or _http_session.closed: _http_session =
\* aiohttp.ClientSession().  Nothing in the program closes the session.
SessionAfterStart == IF http_session = "None" THEN "open" ELSE http_session

\* await client.wait_until_ready(), then the one shared HTTP session
LoopStart ==
    /\ loop = "waiting"
    /\ http_session' = SessionAfterStart
    /\ loop' = "top"
    /\ UNCHANGED <<FINNHUB_TOKEN, GUILD_ID, guilds, closed, nick, presence, update_task,
                   tasks, call, startVars, label>>

\* while not client.is_closed(): false
LoopExit ==
    /\ loop = "top"
    /\ closed
    /\ loop' = "exit"
    /\ update_task' = "done"
    /\ UNCHANGED <<FINNHUB_TOKEN, GUILD_ID, guilds, closed, nick, presence, http_session,
                   tasks, call, startVars, label>>

\* an iteration with no targets goes straight to the sleep
NoTargets ==
    /\ loop = "top"
    /\ ~closed
    /\ Targets = <<>>
    /\ loop' = "sleep"
    /\ UNCHANGED <<FINNHUB_TOKEN, GUILD_ID, guilds, closed, nick, presence, http_session,
                   update_task, tasks, call, startVars, label>>

\* The coroutines of ts still running once the gather is over, now old ones.
Leftover(ts) ==
    [i \in 1..Len(SelectSeq(ts, Running)) |-> [SelectSeq(ts, Running)[i] EXCEPT !.old = TRUE]]

\* asyncio.gather(*(update_guild(g) for g in targets)) is entered.  The
\* model lets the sleep (INTERVAL_SECONDS, 120 s by default) outlast the
\* coroutines an abandoned gather left running (their HTTP calls time out
\* after 10 s each): a new gather starts when they have ended.
StartGather ==
    /\ loop = "top"
    /\ ~closed
    /\ Targets # <<>>
    /\ tasks = <<>>
    /\ tasks' = [i \in 1..Len(Targets) |-> NewTask(Targets[i])]
    /\ loop' = "gather"
    /\ UNCHANGED <<FINNHUB_TOKEN, GUILD_ID, guilds, closed, nick, presence, http_session,
                   update_task, call, startVars, label>>

\* The coroutines of the gather the loop is in.
Gathered == {i \in DOMAIN tasks : ~tasks[i].old}

\* Mutant of OnFirstException: the coroutines still running are cancelled.
OnFirstException_cancel_rest(ts) ==
    [i \in 1..Len(ts) |-> IF Running(ts[i]) THEN [ts[i] EXCEPT !.pc = "cancelled"] ELSE ts[i]]

\* What gather does to the other coroutines when one raises: nothing.
OnFirstException(ts) == ts

\* Mutant of AfterIterationError: the exception ends updater_loop.
AfterIterationError_loop_dies == "crashed"

\* Where updater_loop goes on after "except Exception as e": the sleep.
AfterIterationError == "sleep"

\* gather returns: every coroutine has returned
GatherReturns ==
    /\ loop = "gather"
    /\ \A i \in Gathered : tasks[i].pc = "done"
    /\ tasks' = Leftover(tasks)
    /\ loop' = "sleep"
    /\ UNCHANGED <<FINNHUB_TOKEN, GUILD_ID, guilds, closed, nick, presence, http_session,
                   update_task, call, startVars, label>>

\* gather raises the first exception of a coroutine at once; except
\* Exception at the iteration boundary logs it
GatherRaises ==
    /\ loop = "gather"
    /\ \E i \in Gathered : tasks[i].pc = "failed"
    /\ tasks' = Leftover(OnFirstException(tasks))
    /\ loop' = AfterIterationError
    /\ UNCHANGED <<FINNHUB_TOKEN, GUILD_ID, guilds, closed, nick, presence, http_session,
                   update_task, call, startVars, label>>

\* await asyncio.sleep(INTERVAL_SECONDS + random.uniform(0.0, 2.0)) is over
Wake ==
    /\ loop = "sleep"
    /\ loop' = "top"
    /\ UNCHANGED <<FINNHUB_TOKEN, GUILD_ID, guilds, closed, nick, presence, http_session,
                   update_task, tasks, call, startVars, label>>

\* The client is closed from outside; is_closed() is read at the top of the
\* loop only, so a close during an iteration is seen like one during the
\* sleep after it.
Close ==
    /\ loop \in {"waiting", "sleep"}
    /\ ~closed
    /\ closed' = TRUE
    /\ UNCHANGED <<FINNHUB_TOKEN, GUILD_ID, guilds, nick, presence, http_session,
                   update_task, loop, tasks, call, startVars, label>>

Init ==
    /\ FINNHUB_TOKEN \in BOOLEAN
    /\ GUILD_ID \in {0} \cup Guilds
    /\ guilds \in SUBSET Guilds
    /\ closed = FALSE
    /\ nick = [g \in Guilds |-> NoNick]
    /\ presence = NoActivity
    /\ http_session = "None"
    /\ update_task = "None"
    /\ loop = "none"
    /\ tasks = <<>>
    /\ call = NoCall
    /\ TOKEN \in BOOLEAN
    /\ INTERVAL_SECONDS \in IntervalTexts
    /\ process = ImportModule(TOKEN, INTERVAL_SECONDS)
    /\ label = NoLabel

Next ==
    \/ on_ready
    \/ LoopStart
    \/ LoopExit
    \/ NoTargets
    \/ StartGather
    \/ GatherReturns
    \/ GatherRaises
    \/ Wake
    \/ Close
    \/ \E i \in DOMAIN tasks : EnterGuild(i)
    \/ \E i \in DOMAIN tasks : FetchReturns(i)
    \/ \E i \in DOMAIN tasks : EditNick(i)
    \/ \E i \in DOMAIN tasks : SetPresence(i)
    \/ \E i \in DOMAIN tasks : SetErrorPresence(i)

Spec == Init /\ [][Next]_vars

\* A step of the i-th coroutine.
TaskStep(i) ==
    \/ EnterGuild(i)
    \/ FetchReturns(i)
    \/ EditNick(i)
    \/ SetPresence(i)
    \/ SetErrorPresence(i)

\* A step of updater_loop.
LoopStep ==
    \/ LoopStart
    \/ LoopExit
    \/ NoTargets
    \/ StartGather
    \/ GatherReturns
    \/ GatherRaises
    \/ Wake

\* The event loop runs every coroutine that can go on: an awaited call
\* returns or raises (every provider request has a 10 s timeout), a sleep
\* ends.  The ready event and the close come from outside, with no fairness.
FairSpec ==
    /\ Spec
    /\ WF_vars(LoopStep)
    /\ WF_vars(\E i \in DOMAIN tasks : TaskStep(i))

(***************************************************************************)
(* Properties of the fallback chain (checked under SpecFetch).             *)
(***************************************************************************)
\* The documented priority order of the adapters.
Order(token) ==
    (IF token THEN <<"finnhub">> ELSE <<>>) \o <<"yahoo-quote", "yahoo-chart", "stooq">>

\* C1: the adapters are awaited in the priority order Finnhub (only with a
\* token) -> Yahoo quote -> Yahoo chart -> Stooq; an adapter is awaited only
\* after every adapter before it gave None; the call returns exactly when an
\* adapter gives a quote, with that adapter's price, change and source, so
\* the quote returned is the first success and nothing is awaited after it.
C1_PriorityOrderFirstSuccess ==
    LET inv == call.invoked
        n == Len(inv)
    IN  /\ n <= Len(Order(FINNHUB_TOKEN))
        /\ \A i \in 1..n : inv[i].src = Order(FINNHUB_TOKEN)[i]
        /\ \A i \in 1..(n - 1) : inv[i].kind = "none"
        /\ (n > 0 /\ inv[n].kind = "quote") <=> call.stage = "returned"
        /\ call.stage = "returned" =>
               call.quote = [price |-> call.last.price, chg |-> call.last.chg,
                             source |-> inv[n].src]
        /\ call.stage \in Sources =>
               /\ n < Len(Order(FINNHUB_TOKEN))
               /\ call.stage = Order(FINNHUB_TOKEN)[n + 1]
               /\ n > 0 => inv[n].kind = "none"

\* C1 witness: with a token, Finnhub and both Yahoo adapters gave None and
\* the call returned Stooq's quote.
C1_Witness ==
    /\ FINNHUB_TOKEN
    /\ call.stage = "returned"
    /\ call.quote.source = "stooq"
    /\ Len(call.invoked) = 4

\* C9: a failure inside an adapter reaches fetch_price_change as None, never
\* as an exception, and the chain ends in an error only after the last
\* provider (Stooq) has failed.
C9_AdapterFailureIsNone ==
    /\ \A i \in 1..Len(call.invoked) : call.invoked[i].kind # "raise"
    /\ call.stage = "raised" =>
           /\ call.exc = "RuntimeError"
           /\ call.invoked[Len(call.invoked)].src = "stooq"

\* C10: a timeout or connection error on an endpoint never leaves the
\* adapter as an exception; in a Yahoo adapter the mirror url after it is
\* still requested; and when it is the adapter's last url the adapter gives
\* None and the chain goes on with the next provider (after Stooq it ends
\* with "All sources failed").
C10_TimeoutIsAdapterFailure ==
    LET n == Len(call.invoked)
        src == call.invoked[n].src
        rs == call.asked
        a == call.last
    IN  n > 0 =>
          \A i \in 1..a.reqs :
              rs[i].net = "error" =>
                  /\ ~(a.kind = "raise" /\ a.reqs = i)
                  /\ i < Len(rs) => a.reqs > i
                  /\ i = Len(rs) =>
                         /\ a.kind = "none"
                         /\ IF src = "stooq"
                            THEN call.stage = "raised" /\ call.exc = "RuntimeError"
                            ELSE call.stage = NextStage(src)

\* C10 witness: the first Yahoo quote host timed out, the mirror host was
\* requested and answered, and the call returned its quote.
C10_Witness ==
    /\ call.stage = "returned"
    /\ call.quote.source = "yahoo-quote"
    /\ call.asked[1].net = "error"
    /\ call.last.reqs = 2

\* The log lines of an answer with status 200 that has no result or lacks a
\* field.
NoDataLines == {"No results", "No result", "Missing fields", "Missing last/previousClose"}

\* C18: when the first Yahoo host answers 429 the adapter gives None at
\* once, the second host not requested; when it answers another status
\* than 200, or 200 with no result or a missing field, the second host is
\* requested in the same adapter call.
C18_RateLimitFallsThroughFaster ==
    LET n == Len(call.invoked)
        a == call.last
        first == call.asked[1]
    IN  (n > 0 /\ call.invoked[n].src \in {"yahoo-quote", "yahoo-chart"}) =>
            /\ (first.net = "ok" /\ first.status = 429) =>
                   (a.kind = "none" /\ a.reqs = 1)
            /\ (first.net = "ok" /\ first.status \notin {200, 429}) => a.reqs = 2
            /\ (first.net = "ok" /\ first.status = 200 /\ a.log # <<>> /\ a.log[1] \in NoDataLines) =>
                   a.reqs = 2

\* C18 witness: the first chart host answered 429: one request was made and
\* the chain went on to Stooq.
C18_Witness ==
    /\ call.stage = "stooq"
    /\ call.asked[1].net = "ok"
    /\ call.asked[1].status = 429
    /\ call.last.reqs = 1

\* A CSV line that is a data row: five fields or more, the fifth a number.
DataRow(l) == Len(l) >= 5 /\ l[5].t = "num"

\* C19: when Stooq answered with a header line followed by two or more
\* data rows (the close before the last not 0), the adapter gives the close
\* of the last row as the price and (last - prev) / prev * 100 as the
\* change, prev the close of the row before the last: 100 then 102 give 102
\* and +2; when the text has fewer than two data rows it gives no quote.
C19_StooqTwoMostRecentRows ==
    LET n == Len(call.invoked)
        a == call.last
        lines == SelectSeq(call.text, LAMBDA l : l # <<>>)
        rows == SelectSeq(lines, DataRow)
        last == rows[Len(rows)][5].v
        prev == rows[Len(rows) - 1][5].v
    IN  (n > 0 /\ call.invoked[n].src = "stooq") =>
            /\ (/\ lines # <<>>
                /\ lines[1] = Header
                /\ Len(rows) >= 2
                /\ Len(rows) = Len(lines) - 1
                /\ prev # 0) =>
                   /\ a.kind = "quote"
                   /\ a.price = last
                   /\ a.chg[2] > 0
                   /\ a.chg[1] * prev = (last - prev) * 100 * a.chg[2]
                   /\ (prev = 100 /\ last = 102) => (a.price = 102 /\ a.chg = <<2, 1>>)
            /\ Len(rows) < 2 => a.kind # "quote"

\* C19 witness: a header and rows closing at 0, 100 and 102: the call
\* returned Stooq's quote, 102 and +2.
C19_Witness ==
    /\ call.stage = "returned"
    /\ call.text = <<Header, Row(JNum(0)), Row(JNum(100)), Row(JNum(102))>>
    /\ call.quote = [price |-> 102, chg |-> <<2, 1>>, source |-> "stooq"]

(***************************************************************************)
(* Properties of the bot (checked under Spec and FairSpec).                *)
(***************************************************************************)
\* The coroutine holds a quote: its fetch_price_change returned.
HoldsQuote(t) == t.pc \in {"edit", "presence"}

\* C2: when the fetches fail, the outcome is the failure: in every step taken
\* while no coroutine holds a quote no label changes and the presence can
\* only become the fixed sentinel "NASDAQ Futures: error" (never a text made
\* from the error); and a coroutine whose fetch failed always goes on to
\* hand that sentinel to change_presence.
C2_FailureKeepsLabelsShowsSentinel ==
    /\ [][(\A i \in DOMAIN tasks : ~HoldsQuote(tasks[i])) =>
              /\ nick' = nick
              /\ presence' \in {presence, ErrorText}]_vars
    /\ [](\A i \in DOMAIN tasks :
              tasks[i].pc = "presence_err" =>
                  ENABLED (SetErrorPresence(i) /\ presence' = ErrorText))

\* C2 witness: a gather in which every fetch failed is over: both coroutines
\* handed the error activity to change_presence, the sentinel is shown and no
\* label was touched.
C2_Witness ==
    /\ loop = "gather"
    /\ Len(tasks) = 2
    /\ \A i \in DOMAIN tasks : tasks[i].pc = "done" /\ tasks[i].shown = "error"
    /\ presence = ErrorText
    /\ \A g \in Guilds : nick[g] = NoNick

\* Guild g has a coroutine that has not ended.
RunningFor(g) == \E i \in DOMAIN tasks : tasks[i].guild = g /\ Running(tasks[i])

\* C3: a destination's failure never aborts another destination: a coroutine
\* that has not ended can always take its next step, whatever happened to the
\* others; a label only ever changes to the nickname made from the quote of
\* that guild's own permitted coroutine; every coroutine ends and the gather
\* is left for the sleep.
C3_FailureDoesNotAbortOthers ==
    /\ [](\A i \in DOMAIN tasks : Running(tasks[i]) => ENABLED TaskStep(i))
    /\ [][\A g \in Guilds :
              nick'[g] # nick[g] =>
                  \E i \in DOMAIN tasks :
                      /\ tasks[i].guild = g
                      /\ tasks[i].pc = "edit"
                      /\ tasks[i].can_edit_nick
                      /\ nick'[g] = Nickname(tasks[i].quote.price, tasks[i].quote.chg)]_vars
    /\ \A g \in Guilds : RunningFor(g) ~> ~RunningFor(g)
    /\ (loop = "gather") ~> (loop = "sleep")

\* C3 witness: one coroutine of the gather has raised, and another guild's
\* coroutine, left running, has its label set from its quote.
C3_Witness ==
    \E i, j \in DOMAIN tasks :
        /\ tasks[i].pc = "failed"
        /\ tasks[j].pc = "presence"
        /\ nick[tasks[j].guild] = Nickname(tasks[j].quote.price, tasks[j].quote.chg)

\* C4: the loop does not start its sleep before every update_guild of the
\* iteration has returned or raised.
C4_SleepAfterAllTasks ==
    loop = "sleep" => \A i \in DOMAIN tasks : ~Running(tasks[i])

\* C5: an error in an iteration ends only that iteration: the gather is
\* always left for the sleep, the sleep always ends, and at the top of the
\* loop another iteration begins unless the client is closed; the loop ends
\* only when the client is closed.
C5_NextIterationBegins ==
    /\ (loop = "gather") ~> (loop = "sleep")
    /\ (loop = "sleep") ~> (loop = "top")
    /\ (loop = "top") ~> (closed \/ loop \in {"gather", "sleep"})
    /\ [](loop \notin {"none", "waiting", "top", "gather", "sleep"} => closed)

\* C5 witness: an iteration ended by an exception out of gather (coroutines
\* are still running), the loop has slept and is at the top of the while
\* loop again, the client not closed.
C5_Witness ==
    /\ loop = "top"
    /\ ~closed
    /\ tasks # <<>>

\* C6: one resolver call per cycle, never two in flight.
C6_OneFetchInFlight ==
    Cardinality({i \in DOMAIN tasks : tasks[i].pc = "fetching"}) <= 1

\* The fetch of the coroutine has ended, with a quote or with an exception.
HasOutcome(t) == t.pc \in {"edit", "presence", "presence_err"}

\* C7: one outcome per cycle: the coroutines of a gather never differ in
\* their outcome (the same quote, or all the failure).
C7_OneOutcomePerCycle ==
    \A i, j \in DOMAIN tasks :
        (HasOutcome(tasks[i]) /\ HasOutcome(tasks[j])) =>
            /\ tasks[i].quote = tasks[j].quote
            /\ (tasks[i].pc = "presence_err") <=> (tasks[j].pc = "presence_err")

\* C8: every update_guild that returns has called change_presence.
C8_PresenceAlwaysAttempted ==
    \A i \in DOMAIN tasks : tasks[i].pc = "done" => tasks[i].shown # "none"

\* Guild g has a coroutine for which prop holds.
HasTask(ts, g, prop(_)) == \E i \in DOMAIN ts : ts[i].guild = g /\ prop(ts[i])

\* C11: the nickname edit is attempted only by a coroutine whose own
\* permission check said the nickname may be changed: a coroutine starts
\* with no capability, gets one only in the step that reads the permissions
\* (whatever earlier cycles found, either answer can be read), and stands at
\* the edit only with it; a nickname changes only in a step of such a
\* coroutine of that guild.
C11_EditOnlyWithCapabilityOfThisCycle ==
    /\ [](\A i \in DOMAIN tasks :
              /\ tasks[i].pc = "start" => ~tasks[i].can_edit_nick
              /\ tasks[i].pc = "edit" => tasks[i].can_edit_nick
              /\ tasks[i].pc = "start" =>
                     \A b \in BOOLEAN :
                         ENABLED (EnterGuild(i) /\ i \in DOMAIN tasks'
                                     /\ tasks'[i].pc = "fetching"
                                     /\ tasks'[i].can_edit_nick = b))
    /\ [][\A g \in Guilds :
              /\ HasTask(tasks', g, LAMBDA t : t.can_edit_nick) =>
                     HasTask(tasks, g, LAMBDA t : t.can_edit_nick \/ t.pc = "start")
              /\ nick'[g] # nick[g] =>
                     HasTask(tasks, g, LAMBDA t : t.pc = "edit" /\ t.can_edit_nick)]_vars

\* C11 witness: a guild whose nickname was set in an earlier cycle has, in
\* this cycle, a coroutine that read no capability: it holds a quote that
\* would give another nickname, is past the edit, and the nickname is kept.
C11_Witness ==
    \E i \in DOMAIN tasks :
        /\ tasks[i].pc = "presence"
        /\ ~tasks[i].can_edit_nick
        /\ nick[tasks[i].guild] # NoNick
        /\ nick[tasks[i].guild] # Nickname(tasks[i].quote.price, tasks[i].quote.chg)

\* The number of urls adapter src has.
Urls(src) == IF src \in {"yahoo-quote", "yahoo-chart"} THEN 2 ELSE 1

\* C12: a call of fetch_price_change awaits every adapter at most once, an
\* adapter requests each of its urls at most once, the call ends, and it
\* ends with a quote or with the error "All sources failed".
C12_BoundedAttemptsThenQuoteOrAllFailed ==
    /\ [](\A i, j \in DOMAIN call.invoked :
              /\ call.invoked[i].src = call.invoked[j].src => i = j
              /\ call.invoked[i].reqs <= Urls(call.invoked[i].src))
    /\ <>(call.stage \in {"returned", "raised"})
    /\ [](call.stage = "raised" => call.exc = "RuntimeError")

\* The guilds a cycle has to process.
Restricted == IF GUILD_ID # 0 THEN {GUILD_ID} \cap guilds ELSE guilds

\* C15: with a GUILD_ID only that guild ever has a coroutine and no other
\* guild's nickname is ever set; every gather starts one coroutine for each
\* guild the cycle has to process (the configured one if the session is in
\* it, else every guild of the session), and a cycle goes to the sleep
\* without a gather only when there is none.
C15_DestinationRestriction ==
    /\ [](GUILD_ID # 0 =>
              /\ \A i \in DOMAIN tasks : tasks[i].guild = GUILD_ID
              /\ \A g \in Guilds \ {GUILD_ID} : nick[g] = NoNick)
    /\ [][(loop = "top" /\ loop' = "gather") =>
              /\ {tasks'[i].guild : i \in DOMAIN tasks'} = Restricted
              /\ Len(tasks') = Cardinality(Restricted)]_vars
    /\ [][(loop = "top" /\ loop' = "sleep") => Restricted = {}]_vars

\* C15 witness: the session is in two guilds, GUILD_ID names the first; a
\* cycle is over, the first guild has its nickname and the second has none.
C15_Witness ==
    /\ GUILD_ID = 1
    /\ guilds = {1, 2}
    /\ loop = "sleep"
    /\ nick[1] # NoNick
    /\ nick[2] = NoNick

\* C16: the process ends exactly when TOKEN is missing, and then before the
\* updater loop, the HTTP session or any coroutine exists; a process that
\* is running keeps running.
C16_MissingTokenOnlyFatal ==
    /\ process # "running" <=> ~TOKEN
    /\ process # "running" =>
           /\ update_task = "None"
           /\ loop = "none"
           /\ http_session = "None"
           /\ tasks = <<>>

\* C17: update_task is the one updater_loop: it is not done exactly while
\* the loop is alive, and an updater_loop is only ever started when none is
\* alive (none was started yet, or the last one has returned).
C17_OneUpdaterLoop ==
    /\ [](update_task = "running" <=> loop \notin {"none", "exit"})
    /\ [][(loop' = "waiting" /\ loop # "waiting") => loop \in {"none", "exit"}]_vars

\* C17 witness: the loop is in a gather and the ready event can fire again,
\* leaving the task and the loop as they are.
C17_Witness ==
    /\ update_task = "running"
    /\ loop = "gather"
    /\ ENABLED (on_ready /\ update_task' = update_task /\ loop' = loop)

\* C20: while an update_guild coroutine exists there is a session; the
\* assertion never fails (no coroutine goes from its start to the error
\* presence without a fetch); a session is only ever created when there is
\* none; and every coroutine that has passed the assertion uses the session
\* that _http_session holds.
C20_SharedSessionReady ==
    /\ [](tasks # <<>> => http_session # "None")
    /\ [](\A i \in DOMAIN tasks :
              tasks[i].pc \in {"fetching", "edit", "presence"} =>
                  /\ tasks[i].session # "None"
                  /\ tasks[i].session = http_session)
    /\ [][\A g \in Guilds :
              HasTask(tasks, g, LAMBDA t : t.pc = "start") =>
                  ~HasTask(tasks', g, LAMBDA t : t.pc = "presence_err")]_vars
    /\ [][http_session' # http_session => http_session = "None"]_vars

\* C20 witness: in a later cycle (a nickname is set from an earlier one) two
\* coroutines are in fetch_price_change with the one session.
C20_Witness ==
    /\ \E g \in Guilds : nick[g] # NoNick
    /\ Len(tasks) = 2
    /\ \A i \in DOMAIN tasks :
           /\ tasks[i].pc = "fetching"
           /\ ~tasks[i].old
           /\ tasks[i].session = http_session

(***************************************************************************)
(* Properties of the nickname (checked under SpecFormat).                  *)
(***************************************************************************)
\* C13: every rendered nickname ends in the sign marker, the green one when
\* the change is zero or more and the red one when it is below zero.
C13_MarkerMatchesSign ==
    label.done =>
        /\ label.nickname # <<>>
        /\ label.nickname[Len(label.nickname)] =
               (IF label.chg[1] >= 0 THEN "green" ELSE "red")

\* C14: a rendered nickname has at most 32 characters.
C14_NicknameWithinMax ==
    label.done => Len(label.nickname) <= 32

\* C14 witness: a price of more than twenty digits, whose text with "$",
\* the blank and the marker is longer than 32, was rendered in exactly 32.
C14_Witness ==
    /\ label.done
    /\ Len(label.digits) > 20
    /\ Len(MoneyOf(label.neg, label.digits)) + 3 > 32
    /\ Len(label.nickname) = 32

====
